---- MODULE Spec2Model ----
(***************************************************************************)
(* Model of SQL.py: the script that drops, creates, populates and indexes  *)
(* the restaurant_management.db SQLite database through Python's sqlite3   *)
(* connection.  The connection's working state (tables, indexes, rows,     *)
(* sqlite_sequence) is kept apart from the committed content of the file.  *)
(***************************************************************************)
EXTENDS Integers, Sequences, FiniteSets, TLC

\* Loop lengths: range(1500) at line 153 and range(100) at line 180, scaled.
NumCustomers == 2
NumMenuItems == 1

\* The value Python's None takes in the email column (SQL NULL).
None == "None"

\* The e-mail pools faker.email() may draw from in a run.
SmallPool == {"a@example.org"}
LargePool == {"a@example.org", "b@example.net"}

\* Sampled outcomes of round(random.uniform(5, 50), 2), in cents, and of
\* random.randint(100, 1000): the least of each range, which is the one the
\* checks price > 0 and calories >= 0 bear on.
PriceSamples == {500}
CaloriesSamples == {100}

\* The drop list with the table no CREATE statement makes left out.
tables_to_drop_WithoutReservations ==
    << "Order_Details", "Orders", "Menu_Items", "Customers", "Employees",
       "Suppliers", "Inventory", "Feedback", "Tables", "Menu_Supplier" >>

tables_to_drop ==
    << "Order_Details", "Orders", "Reservations", "Menu_Items", "Customers",
       "Employees", "Suppliers", "Inventory", "Feedback", "Tables",
       "Menu_Supplier" >>

\* The CREATE TABLE IF NOT EXISTS statements, in program order.
create_statements ==
    << "Customers", "Menu_Items", "Orders", "Order_Details", "Employees",
       "Tables", "Suppliers", "Inventory", "Feedback", "Menu_Supplier" >>

\* The CREATE INDEX IF NOT EXISTS statements, in program order.
index_statements ==
    << [name |-> "idx_orders_customer_id", tbl |-> "Orders"],
       [name |-> "idx_order_date", tbl |-> "Orders"],
       [name |-> "idx_feedback_customer_id", tbl |-> "Feedback"],
       [name |-> "idx_inventory_supplier_id", tbl |-> "Inventory"],
       [name |-> "idx_order_details_order_id", tbl |-> "Order_Details"] >>

loyalty_tiers == {"Bronze", "Silver", "Gold"}
availabilities == {"Available", "Out of Stock"}

item_names ==
    {"Latte", "Cheesecake", "Pizza", "Caesar Salad", "Grilled Chicken",
     "Pasta", "Burger"}

\* The map with a category the schema does not declare.
item_category_map_Undeclared(item_name) ==
    CASE item_name = "Latte" -> "Drink"
      [] item_name = "Cheesecake" -> "Dessert"
      [] item_name = "Caesar Salad" -> "Appetizer"
      [] OTHER -> "Main Course"

item_category_map(item_name) ==
    CASE item_name = "Latte" -> "Beverage"
      [] item_name = "Cheesecake" -> "Dessert"
      [] item_name = "Caesar Salad" -> "Appetizer"
      [] OTHER -> "Main Course"

\* ", ".join(ingredients) of line 189.
item_ingredients(item_name) ==
    CASE item_name = "Latte" -> "milk, coffee, sugar"
      [] item_name = "Cheesecake" -> "cream cheese, sugar, eggs"
      [] item_name = "Pizza" -> "tomato sauce, mozzarella, basil"
      [] item_name = "Caesar Salad" -> "romaine, croutons, parmesan"
      [] item_name = "Grilled Chicken" -> "chicken breast, olive oil, garlic"
      [] item_name = "Pasta" -> "penne, marinara, parmesan"
      [] OTHER -> "beef patty, lettuce, tomato"

\* The tables that receive rows.  Of a row the model keeps the key and the
\* columns a constraint or the script's logic bears on; the faker texts of the
\* other NOT NULL columns (name, phone, address, registered_date) are left out.
RowTables == {"Customers", "Menu_Items"}

VARIABLES
    pc,               \* position of the script
    i,                \* index of the next statement or loop iteration
    tables,           \* connection view: names of the existing tables
    indexes,          \* connection view: [name, tbl] of every index
    rows,             \* connection view: rows[t] is the row sequence of t
    sqlite_sequence,  \* connection view: last AUTOINCREMENT key per table
    in_transaction,   \* an implicit transaction is open
    file,             \* committed content of restaurant_management.db
    generated_emails, \* the set of line 152
    email,            \* the local of lines 154-158
    pool,             \* the e-mails faker.email() can yield in this run
    error,            \* the exception that ended the run and where it rose
    earlier_run       \* the file was left by an earlier run of the script

vars ==
    << pc, i, tables, indexes, rows, sqlite_sequence, in_transaction, file,
       generated_emails, email, pool, error, earlier_run >>

NoRows == [t \in RowTables |-> << >>]
NoSequence == [t \in RowTables |-> 0]

Snapshot(tb, ix, rw, sq) ==
    [tables |-> tb, indexes |-> ix, rows |-> rw, sqlite_sequence |-> sq]

NoError == [exc |-> "none", at |-> "none"]

FreshFile == Snapshot({}, {}, NoRows, NoSequence)

\* A file left by an older version of the schema: tables the drop list names.
OlderFile ==
    Snapshot({"Reservations", "Orders"},
             {[name |-> "idx_reservation_date", tbl |-> "Reservations"]},
             NoRows, NoSequence)

\* A file that holds a table the script does not know, with an index.
LegacyFile ==
    Snapshot({"Legacy"}, {[name |-> "idx_order_date", tbl |-> "Legacy"]},
             NoRows, NoSequence)

\* The starting points explored: the file found and the e-mails faker yields.
Scenarios ==
    { << FreshFile, LargePool >>, << OlderFile, LargePool >>,
      << LegacyFile, SmallPool >> }

Init ==
    /\ pc = "drop"
    /\ i = 1
    /\ \E sc \in Scenarios : file = sc[1] /\ pool = sc[2]
    /\ tables = file.tables
    /\ indexes = file.indexes
    /\ rows = file.rows
    /\ sqlite_sequence = file.sqlite_sequence
    /\ in_transaction = FALSE
    /\ generated_emails = {}
    /\ email = None
    /\ error = NoError
    /\ earlier_run = FALSE


(***************************************************************************)
(* The SQLite engine, as the statements of the script use it.              *)
(***************************************************************************)

Last(s) == IF Len(s) = 0 THEN 0 ELSE s[Len(s)].id
Max(a, b) == IF a >= b THEN a ELSE b

\* DROP TABLE IF EXISTS t: the table goes with its indexes, its rows and its
\* sqlite_sequence entry.
DropTables(t, tb) == tb \ {t}
DropIndexes(t, ix) == {x \in ix : x.tbl # t}
\* A drop that leaves the rows, as when the table is missing from the list.
DropRows_Keeps(t, rw) == rw

DropRows(t, rw) == [u \in RowTables |-> IF u = t THEN << >> ELSE rw[u]]
\* A drop that leaves the sqlite_sequence entry, as DELETE FROM t would.
DropSequence_Keeps(t, sq) == sq

DropSequence(t, sq) == [u \in RowTables |-> IF u = t THEN 0 ELSE sq[u]]

\* CREATE TABLE IF NOT EXISTS t: nothing happens when t exists.
CreateTable(t, tb) == tb \cup {t}

\* CREATE INDEX IF NOT EXISTS x.name ON x.tbl, x.tbl existing: nothing
\* happens when an index of that name exists, on whichever table.
CreateIndex(x, ix) ==
    IF \E y \in ix : y.name = x.name THEN ix ELSE ix \cup {x}

\* The declared constraints of Customers (lines 32-40) and Menu_Items
\* (lines 44-52) that a generated row can violate.
CustomersCheck(row) == row.loyalty_tier \in {"Bronze", "Silver", "Gold"}

CustomersUnique(row, existing) ==
    row.email # None =>
        \A k \in 1..Len(existing) : existing[k].email # row.email

Menu_ItemsCheck(row) ==
    /\ row.category \in
           {"Appetizer", "Main Course", "Dessert", "Beverage", "Breakfast"}
    /\ row.price > 0
    /\ row.calories >= 0
    /\ row.availability \in {"Available", "Out of Stock"}

\* The exception an INSERT of row into t raises, "none" when it succeeds.
InsertError(t, row) ==
    IF t \notin tables THEN "OperationalError: no such table"
    ELSE IF t = "Customers" /\ ~CustomersCheck(row)
        THEN "IntegrityError: CHECK constraint failed"
    ELSE IF t = "Customers" /\ ~CustomersUnique(row, rows[t])
        THEN "IntegrityError: UNIQUE constraint failed"
    ELSE IF t = "Menu_Items" /\ ~Menu_ItemsCheck(row)
        THEN "IntegrityError: CHECK constraint failed"
    ELSE "none"

\* INTEGER PRIMARY KEY AUTOINCREMENT: one more than the largest key the table
\* ever held.
NextId(t) == Max(sqlite_sequence[t], Last(rows[t])) + 1

(***************************************************************************)
(* Python's sqlite3 connection (the f-string of line 27 needs Python 3.6  *)
(* or later): DDL outside a transaction is committed at once and DDL       *)
(* inside one joins it, an INSERT opens a transaction, and a connection    *)
(* that goes away without commit() leaves the file as last committed.      *)
(***************************************************************************)

\* A connection in autocommit mode (isolation_level=None).
execute_Autocommit(tb, ix, rw, sq, dml) ==
    /\ tables' = tb
    /\ indexes' = ix
    /\ rows' = rw
    /\ sqlite_sequence' = sq
    /\ in_transaction' = FALSE
    /\ file' = Snapshot(tb, ix, rw, sq)

execute(tb, ix, rw, sq, dml) ==
    /\ tables' = tb
    /\ indexes' = ix
    /\ rows' = rw
    /\ sqlite_sequence' = sq
    /\ in_transaction' = (in_transaction \/ dml)
    /\ file' = IF in_transaction \/ dml THEN file ELSE Snapshot(tb, ix, rw, sq)

\* An exception handled by committing what was done (finally: conn.commit()).
Raise_Commits(exc) ==
    /\ pc' = "aborted"
    /\ error' = [exc |-> exc, at |-> pc]
    /\ file' = Snapshot(tables, indexes, rows, sqlite_sequence)
    /\ in_transaction' = FALSE
    /\ UNCHANGED << tables, indexes, rows, sqlite_sequence, i, email, pool,
                    earlier_run >>

\* An exception nothing catches: the interpreter exits, the open transaction
\* is rolled back.
Raise(exc) ==
    /\ pc' = "aborted"
    /\ error' = [exc |-> exc, at |-> pc]
    /\ tables' = file.tables
    /\ indexes' = file.indexes
    /\ rows' = file.rows
    /\ sqlite_sequence' = file.sqlite_sequence
    /\ in_transaction' = FALSE
    /\ UNCHANGED << file, i, email, pool, earlier_run >>

\* cursor.execute("INSERT INTO t ..."), then the step to statement nextpc.
Insert(t, row, nextpc, nexti) ==
    IF InsertError(t, row) # "none"
    THEN Raise(InsertError(t, row))
    ELSE /\ execute(tables, indexes,
                    [rows EXCEPT ![t] = Append(@, [row EXCEPT !.id = NextId(t)])],
                    [sqlite_sequence EXCEPT ![t] = NextId(t)], TRUE)
         /\ pc' = nextpc
         /\ i' = nexti
         /\ UNCHANGED << email, pool, error, earlier_run >>

(***************************************************************************)
(* The script.                                                             *)
(***************************************************************************)

\* Lines 26-27: one DROP TABLE IF EXISTS per step.
DropTable ==
    /\ pc = "drop"
    /\ LET t == tables_to_drop[i] IN
         execute(DropTables(t, tables), DropIndexes(t, indexes),
                 DropRows(t, rows), DropSequence(t, sqlite_sequence), FALSE)
    /\ IF i < Len(tables_to_drop)
         THEN pc' = "drop" /\ i' = i + 1
         ELSE pc' = "create" /\ i' = 1
    /\ UNCHANGED << generated_emails, email, pool, error, earlier_run >>

\* Lines 31-147: one CREATE TABLE IF NOT EXISTS per step; line 152 follows
\* the last one.
CreateTables ==
    /\ pc = "create"
    /\ execute(CreateTable(create_statements[i], tables), indexes, rows,
               sqlite_sequence, FALSE)
    /\ IF i < Len(create_statements)
         THEN pc' = "create" /\ i' = i + 1
         ELSE pc' = "cust_gen" /\ i' = 1
    /\ generated_emails' =
         IF i < Len(create_statements) THEN generated_emails ELSE {}
    /\ UNCHANGED << email, pool, error, earlier_run >>

\* Line 154: None with probability 0.1, else a faker e-mail.
CustGenerate ==
    /\ pc = "cust_gen"
    /\ email' \in {None} \cup pool
    /\ pc' = "cust_while"
    /\ UNCHANGED << i, tables, indexes, rows, sqlite_sequence, in_transaction,
                    file, generated_emails, pool, error, earlier_run >>

\* Lines 155-156: the loop runs while the e-mail is one already used.
Collides == email # None /\ email \in generated_emails

\* A loop body that does not draw a new e-mail.
CustRegenerate_NoDraw ==
    /\ pc = "cust_while"
    /\ Collides
    /\ UNCHANGED vars

\* Line 157: draw again.
CustRegenerate ==
    /\ pc = "cust_while"
    /\ Collides
    /\ email' \in pool
    /\ UNCHANGED << pc, i, tables, indexes, rows, sqlite_sequence,
                    in_transaction, file, generated_emails, pool, error,
                    earlier_run >>

\* The loop without line 158.
Remember_Forgets == generated_emails

\* Line 158.
Remember == IF email # None THEN generated_emails \cup {email}
            ELSE generated_emails

\* Lines 158-164: the e-mail is recorded and the row inserted.
CustInsert ==
    /\ pc = "cust_while"
    /\ ~Collides
    /\ generated_emails' = Remember
    /\ \E tier \in loyalty_tiers :
         Insert("Customers",
                [id |-> 0, email |-> email, loyalty_tier |-> tier],
                IF i < NumCustomers THEN "cust_gen" ELSE "menu",
                IF i < NumCustomers THEN i + 1 ELSE 1)

\* Lines 180-189.
MenuInsert ==
    /\ pc = "menu"
    /\ \E item_name \in item_names, price \in PriceSamples,
          calories \in CaloriesSamples, availability \in availabilities :
         Insert("Menu_Items",
                [id |-> 0, item_name |-> item_name,
                 category |-> item_category_map(item_name), price |-> price,
                 ingredients |-> item_ingredients(item_name),
                 calories |-> calories, availability |-> availability],
                IF i < NumMenuItems THEN "menu" ELSE "index",
                IF i < NumMenuItems THEN i + 1 ELSE 1)
    /\ UNCHANGED generated_emails

\* Lines 195-199: one CREATE INDEX IF NOT EXISTS per step.
CreateIndexes ==
    /\ pc = "index"
    /\ LET x == index_statements[i] IN
         IF x.tbl \notin tables
         THEN Raise("OperationalError: no such table")
         ELSE /\ execute(tables, CreateIndex(x, indexes), rows,
                         sqlite_sequence, FALSE)
              /\ IF i < Len(index_statements)
                   THEN pc' = "index" /\ i' = i + 1
                   ELSE pc' = "commit" /\ i' = 1
              /\ UNCHANGED << email, pool, error, earlier_run >>
    /\ UNCHANGED generated_emails

\* Lines 202-205.
Commit ==
    /\ pc = "commit"
    /\ file' = Snapshot(tables, indexes, rows, sqlite_sequence)
    /\ in_transaction' = FALSE
    /\ pc' = "done"
    /\ UNCHANGED << i, tables, indexes, rows, sqlite_sequence, generated_emails,
                    email, pool, error, earlier_run >>

\* A statement the engine cannot carry out (the disk is full, the file is
\* locked): cursor.execute or conn.commit raises.
AtStatement ==
    \/ pc \in {"drop", "create", "menu", "index", "commit"}
    \/ pc = "cust_while" /\ ~Collides

StatementFails ==
    /\ AtStatement
    /\ Raise("OperationalError: disk I/O error")
    /\ generated_emails' =
         IF pc = "cust_while" THEN Remember ELSE generated_emails

\* The script is started again on the file the last run left.
Rerun ==
    /\ pc \in {"done", "aborted"}
    /\ pc' = "drop"
    /\ i' = 1
    /\ generated_emails' = {}
    /\ email' = None
    /\ error' = NoError
    /\ earlier_run' = TRUE
    /\ UNCHANGED << tables, indexes, rows, sqlite_sequence, in_transaction,
                    file, pool >>

\* One run of the script, from the connect to its end.
Run ==
    \/ DropTable
    \/ CreateTables
    \/ CustGenerate
    \/ CustRegenerate
    \/ CustInsert
    \/ MenuInsert
    \/ CreateIndexes
    \/ Commit
    \/ StatementFails

Next == Run \/ Rerun

Spec == Init /\ [][Next]_vars

(***************************************************************************)
(* Helpers of the properties.                                              *)
(***************************************************************************)

TenTables == {create_statements[k] : k \in 1..Len(create_statements)}
FiveIndexes == {index_statements[k] : k \in 1..Len(index_statements)}
DropList == TenTables \cup {"Reservations"}
IndexNames(ix) == {x.name : x \in ix}
Ids(s) == {s[k].id : k \in 1..Len(s)}
IsPrefix(a, b) ==
    Len(a) <= Len(b) /\ \A k \in 1..Len(a) : a[k] = b[k]

EmailsDistinct(s) ==
    \A j, k \in 1..Len(s) :
        j # k /\ s[j].email # None => s[j].email # s[k].email

Populated ==
    /\ Len(rows["Customers"]) = NumCustomers
    /\ Len(rows["Menu_Items"]) = NumMenuItems

\* The run ended with the print of line 205.
Done == pc = "done"

(***************************************************************************)
(* C1                                                                      *)
(***************************************************************************)

\* C1: in the connection's view and in the file, any two Customers rows with
\* a non-null e-mail differ in it; the e-mail that reaches the INSERT is not
\* one already used, and no run ends with a UNIQUE constraint failure.
C1_EmailsPairwiseDistinct ==
    /\ EmailsDistinct(rows["Customers"])
    /\ EmailsDistinct(file.rows["Customers"])
    /\ (pc = "cust_while" /\ ~Collides /\ email # None =>
            \A k \in 1..Len(rows["Customers"]) :
                rows["Customers"][k].email # email)
    /\ error.exc # "IntegrityError: UNIQUE constraint failed"

\* Two customers with e-mails and the loop over: a collision was possible.
C1_Witness ==
    /\ Len(rows["Customers"]) = NumCustomers
    /\ \E j, k \in 1..Len(rows["Customers"]) :
         /\ j # k
         /\ rows["Customers"][j].email # None
         /\ rows["Customers"][k].email # None

(***************************************************************************)
(* C3                                                                      *)
(***************************************************************************)

\* C3: once the customer loop is over the customer_id values are exactly
\* 1..NumCustomers, in the connection and, after the commit, in the file,
\* whatever the file held when the run started.
C3_CustomerIdsFromOne ==
    /\ pc \in {"menu", "index", "commit", "done"} =>
           Ids(rows["Customers"]) = 1..NumCustomers
    /\ Done => Ids(file.rows["Customers"]) = 1..NumCustomers

\* A run on a file an earlier run left has committed its customers.
C3_Witness ==
    /\ Done
    /\ earlier_run
    /\ Ids(file.rows["Customers"]) = 1..NumCustomers

(***************************************************************************)
(* C4                                                                      *)
(***************************************************************************)

\* C4: every Menu_Items row has price > 0, calories >= 0, a category among
\* the five declared and an availability among the two declared, every
\* Customers row a loyalty_tier among the three declared, and no run ends
\* with a CHECK constraint failure.
C4_RowsSatisfyChecks ==
    /\ \A k \in 1..Len(rows["Menu_Items"]) :
         LET r == rows["Menu_Items"][k] IN
           /\ r.price > 0
           /\ r.calories >= 0
           /\ r.category \in {"Appetizer", "Main Course", "Dessert",
                              "Beverage", "Breakfast"}
           /\ r.availability \in {"Available", "Out of Stock"}
    /\ \A k \in 1..Len(rows["Customers"]) :
         rows["Customers"][k].loyalty_tier \in {"Bronze", "Silver", "Gold"}
    /\ error.exc # "IntegrityError: CHECK constraint failed"

\* Both loops are over and a beverage is on the menu.
C4_Witness ==
    /\ pc = "index"
    /\ Populated
    /\ \E k \in 1..Len(rows["Menu_Items"]) :
         rows["Menu_Items"][k].category = "Beverage"

(***************************************************************************)
(* C6                                                                      *)
(***************************************************************************)

\* C6 as stated: a finished run leaves exactly the ten tables and exactly
\* five indexes, whatever the file held before.
C6_ExactlyTenTablesFiveIndexes ==
    Done => /\ file.tables = TenTables
            /\ Cardinality(file.indexes) = 5

\* C6 amended: a finished run leaves the ten tables, none of the other tables
\* the drop list names, on the ten tables no index but the five, and each of
\* the five index names; when no table outside the drop list is in the file
\* it holds exactly the ten tables and the five indexes.
C6_TenTablesOfDropList ==
    Done =>
      /\ TenTables \subseteq file.tables
      /\ file.tables \cap DropList = TenTables
      /\ \A x \in file.indexes : x.tbl \in DropList => x \in FiveIndexes
      /\ IndexNames(FiveIndexes) \subseteq IndexNames(file.indexes)
      /\ (file.tables \subseteq DropList =>
              file.tables = TenTables /\ file.indexes = FiveIndexes)

\* A finished run on a file that holds only tables of the drop list.
C6_Witness ==
    /\ Done
    /\ file.tables = TenTables
    /\ file.indexes = FiveIndexes

(***************************************************************************)
(* C7                                                                      *)
(***************************************************************************)

\* C7: a finished run leaves NumCustomers Customers rows and NumMenuItems
\* Menu_Items rows in the file, on a fresh file as on one an earlier run
\* left, and the rows are structurally valid.
C7_RowCountsMatchTargets ==
    Done =>
      /\ Len(file.rows["Customers"]) = NumCustomers
      /\ Len(file.rows["Menu_Items"]) = NumMenuItems
      /\ \A k \in 1..Len(file.rows["Customers"]) :
           CustomersCheck(file.rows["Customers"][k])
      /\ \A k \in 1..Len(file.rows["Menu_Items"]) :
           Menu_ItemsCheck(file.rows["Menu_Items"][k])

\* A second run has finished with the row counts of the first.
C7_Witness ==
    /\ Done
    /\ earlier_run
    /\ Len(file.rows["Customers"]) = NumCustomers
    /\ Len(file.rows["Menu_Items"]) = NumMenuItems

(***************************************************************************)
(* C8                                                                      *)
(***************************************************************************)

InsertFailed == pc = "aborted" /\ error.at \in {"cust_while", "menu"}

\* C8: when an INSERT raises, the file holds no row and none of the five
\* indexes, no transaction stays open, and the run executes nothing more:
\* the only step from the aborted state is a new start of the script, which
\* leaves the file as it is.
C8_FailedInsertAbortsUncommitted ==
    /\ [](InsertFailed =>
            /\ file.rows = NoRows
            /\ rows = NoRows
            /\ file.indexes \cap FiveIndexes = {}
            /\ ~in_transaction)
    /\ [][pc = "aborted" => pc' = "drop" /\ file' = file]_vars

\* An INSERT into Menu_Items failed after customers had been inserted.
C8_Witness ==
    /\ InsertFailed
    /\ error.at = "menu"
    /\ generated_emails # {}
    /\ file.rows = NoRows

(***************************************************************************)
(* C9                                                                      *)
(***************************************************************************)

Rank(p) ==
    CASE p = "drop" -> 1
      [] p = "create" -> 2
      [] p \in {"cust_gen", "cust_while"} -> 3
      [] p = "menu" -> 4
      [] p = "index" -> 5
      [] p = "commit" -> 6
      [] OTHER -> 7

Running == pc \notin {"done", "aborted"} /\ pc' # "aborted"

C9_Step ==
    \* the phases follow one another
    /\ Running => Rank(pc') >= Rank(pc)
    \* each DROP and each CREATE TABLE is executed once, in list order
    /\ Running /\ pc = "drop" =>
         /\ tables' = tables \ {tables_to_drop[i]}
         /\ \/ pc' = "drop" /\ i' = i + 1
            \/ pc' = "create" /\ i = Len(tables_to_drop)
    /\ Running /\ pc = "create" =>
         /\ tables' = tables \cup {create_statements[i]}
         /\ \/ pc' = "create" /\ i' = i + 1
            \/ pc' = "cust_gen" /\ i = Len(create_statements)
    \* the schema changes only before the first INSERT
    /\ tables' # tables => pc \in {"drop", "create"} /\ ~in_transaction
    /\ pc \in {"drop", "create"} => ~in_transaction
    \* rows are inserted in the two loops only, and never changed or removed
    /\ (\E t \in RowTables : Len(rows'[t]) > Len(rows[t])) =>
           pc \in {"cust_while", "menu"}
    /\ Running /\ Rank(pc) >= 3 =>
           \A t \in RowTables : IsPrefix(rows[t], rows'[t])
    \* an index is created only after the last INSERT
    /\ indexes' \ indexes # {} => pc = "index" /\ Populated
    \* the one commit follows the last CREATE INDEX
    /\ (Rank(pc) >= 3 /\ file' # file) =>
           /\ pc = "commit"
           /\ IndexNames(FiveIndexes) \subseteq IndexNames(indexes)
           /\ file'.rows = rows

\* C9: within a run the phases are ordered: every DROP and CREATE TABLE is
\* executed once and before the first INSERT, indexes are created after the
\* last INSERT, the commit follows the last index, and no inserted row is
\* changed or removed.
C9_PhasesOrdered == [][C9_Step]_vars

\* A run went through every phase: populated, indexed and committed.
C9_Witness ==
    /\ Done
    /\ ~earlier_run
    /\ Len(file.rows["Menu_Items"]) = NumMenuItems
    /\ FiveIndexes \subseteq file.indexes

(***************************************************************************)
(* C10                                                                     *)
(***************************************************************************)

\* faker yields an unused e-mail sooner or later when it has one.
FreshDraw == CustRegenerate /\ ~Collides'

\* One run of the script, which keeps executing, with a fair e-mail generator.
FairSpec == Init /\ [][Run]_vars /\ WF_vars(Run) /\ WF_vars(FreshDraw)

\* The loop of lines 156-157 with every e-mail of the pool used.
Exhausted == pc = "cust_while" /\ Collides /\ pool \subseteq generated_emails

\* C10: with a fair generator the loop of a customer ends whenever the pool
\* holds an unused e-mail, and a run whose pool has at least NumCustomers
\* e-mails reaches its end (the commit, or an exception); once the pool is
\* used up the loop spins for ever, with no insert and no exception.
C10_LoopEndsUnlessPoolExhausted ==
    /\ (pc = "cust_while" /\ ~(pool \subseteq generated_emails))
           ~> (pc # "cust_while")
    /\ (pc = "drop" /\ Cardinality(pool) >= NumCustomers)
           ~> (pc \in {"done", "aborted"})
    /\ [](Exhausted => ~ENABLED (FreshDraw \/ CustInsert \/ StatementFails))
    /\ [][Exhausted => Exhausted' /\ rows' = rows /\ error' = error]_vars

\* The loop is spinning on a pool smaller than the number of customers.
C10_Witness ==
    /\ Exhausted
    /\ Cardinality(pool) < NumCustomers

====
